---- MODULE Spec2Model ----
(***************************************************************************)
(* Model of ngspeciesid.py: for every folder under the working directory   *)
(* that holds a sorted.fastq, a shell pipeline (seqkit, vsearch, awk join  *)
(* with taxonomy.tsv) produces classified_full.tsv in a temporary folder;  *)
(* pandas computes the abundance of each species, drops duplicate species  *)
(* rows, and the cleaned table is copied into a group folder named by the  *)
(* first three characters of the folder name.                              *)
(*                                                                         *)
(* Text is modelled as a sequence of one-character strings, a line of a    *)
(* tab-delimited file as the sequence of its fields, a file as the         *)
(* sequence of its lines.                                                  *)
(***************************************************************************)
EXTENDS Integers, Sequences, FiniteSets, TLC

VARIABLES tree, taxonomy, files, dirs, pending, pc, dirpath, tmp, ext_failed,
          returncode, df, abundance_table, df_clean, routed

vars == <<tree, taxonomy, files, dirs, pending, pc, dirpath, tmp, ext_failed,
          returncode, df, abundance_table, df_clean, routed>>

\* ------------------------------------------------------------------ bounds

\* Longest hits.txt of a run over a single sample folder.
MaxHits == 3
\* Longest hits.txt of each sample in a run over several sample folders.
MaxBatchHits == 1

\* ------------------------------------------------------------------- texts

ID == <<"i", "d">>
SPECIES == <<"s", "p", "e", "c", "i", "e", "s">>
GENUS == <<"g", "e", "n", "u", "s">>
CENTROID == <<"c", "e", "n", "t", "r", "o", "i", "d">>
IDENTITY == <<"i", "d", "e", "n", "t", "i", "t", "y">>
ABUNDANCE == <<"a", "b", "u", "n", "d", "a", "n", "c", "e">>
UNKNOWN == <<"U", "N", "K", "N", "O", "W", "N">>
TSV == <<".", "t", "s", "v">>

TAXONOMY_TSV == "taxonomy.tsv"
SORTED_FASTA == "sorted.fasta"
HITS_TXT == "hits.txt"
CLASSIFIED_FULL_TMP == "classified_full_tmp.tsv"
CLASSIFIED_FULL == "classified_full.tsv"
WITH_ABUNDANCE == "classified_full_with_abundance.tsv"
\* The file os.path.join(tmpdir, output_filename).
CLEANED == "<folder_name>.tsv"

Digits == <<"0", "1", "2", "3", "4", "5", "6", "7", "8", "9">>

\* ------------------------------------------------------------------ inputs

\* taxonomy.tsv with the species column right after the identifier.
TaxSpeciesSecond ==
    << <<ID, SPECIES, GENUS>>,
       << <<"1">>, <<"H", " ", "s">>, <<"H">> >>,
       << <<"2">>, <<"H", "_", "s">>, <<"H">> >>,
       << <<"3">>, <<"E">>, <<"E">> >> >>

\* taxonomy.tsv with the species column last.
TaxSpeciesThird ==
    << <<ID, GENUS, SPECIES>>,
       << <<"1">>, <<"H">>, <<"H", " ", "s">> >>,
       << <<"2">>, <<"H">>, <<"H", "_", "s">> >>,
       << <<"3">>, <<"E">>, <<"E">> >> >>

TaxonomyTables == {TaxSpeciesSecond, TaxSpeciesThird}

\* target identifiers vsearch can report: known taxa (with one, two or no
\* ':'), a taxon that is not in taxonomy.tsv, and the text of the first
\* header field.
Targets ==
    { <<"1", ":", "a">>, <<"2", ":", "b", ":", "c">>, <<"3">>,
      <<"9", ":", "a">>, ID \o <<":", "a">> }

Query(i) == <<"q", Digits[i + 1]>>
IdentityValue == <<"9", "5">>

\* hits.txt files of at most n lines: query+target+id.
RECURSIVE TargetSeqs(_)
TargetSeqs(n) ==
    IF n = 0 THEN {<<>>}
    ELSE LET shorter == TargetSeqs(n - 1)
         IN  shorter \cup {Append(s, t) : s \in {x \in shorter : Len(x) = n - 1},
                                          t \in Targets}

HitsOf(targets) ==
    [i \in 1..Len(targets) |-> <<Query(i), targets[i], IdentityValue>>]

HitFiles(n) == {HitsOf(s) : s \in TargetSeqs(n)}

\* Sample folders: two folders with one name under different parents, and a
\* folder whose name is shorter than three characters.
ABC1 == <<"A", "B", "C", "1">>
AB == <<"A", "B">>
SampleA == << <<"a">>, ABC1 >>
SampleB == << <<"b">>, ABC1 >>
SampleShort == << AB >>

\* The directory trees a run walks: the folders holding a sorted.fastq.
Trees == { {SampleA}, {SampleB}, {SampleShort},
           {SampleA, SampleB}, {SampleA, SampleShort} }

\* Files of an earlier run found in the working directory.
OTHER_TSV == <<"o", ".", "t", "s", "v">>
OldTable == << <<CENTROID, IDENTITY, ID, ABUNDANCE>> >>
NoFiles == [p \in {} |-> <<>>]
EarlierFiles ==
    [p \in { <<SubSeq(ABC1, 1, 3), OTHER_TSV>>, <<AB, OTHER_TSV>>,
             <<SubSeq(ABC1, 1, 3), ABC1 \o TSV>> } |-> OldTable]

\* --------------------------------------------------------------- awk join

\* awk's $i of a line.
Field(line, i) == IF i \in 1..Len(line) THEN line[i] ELSE <<>>

IndexOf(s, c) ==
    IF \E i \in 1..Len(s) : s[i] = c
    THEN CHOOSE i \in 1..Len(s) : s[i] = c /\ \A j \in 1..(i - 1) : s[j] # c
    ELSE 0

RECURSIVE SplitParts(_, _)
SplitParts(s, sep) ==
    LET k == IndexOf(s, sep)
    IN  IF k = 0 THEN <<s>>
        ELSE <<SubSeq(s, 1, k - 1)>> \o SplitParts(SubSeq(s, k + 1, Len(s)), sep)

\* awk's split(s, parts, sep): the empty string has no parts.
Split(s, sep) == IF s = <<>> THEN <<>> ELSE SplitParts(s, sep)

\* The taxon identifier taken without the split: the whole target.
AwkTidWholeTarget(target) == target

\* split($2, parts, ":"); tid = parts[1]
AwkTid(target) == Field(Split(target, ":"), 1)

\* NR as the BEGIN rule sees it while it reads the i-th line of taxonomy.tsv
\* with "getline < file": that form sets $0 and NF and leaves NR alone, and
\* no record of the main input has been read yet.
GetlineNR(i) == 0

\* The BEGIN rule: the lookup table tax after the first n lines were read.
RECURSIVE LoadTaxonomy(_, _)
LoadTaxonomy(lines, n) ==
    IF n = 0 THEN [k \in {} |-> <<>>]
    ELSE LET tax == LoadTaxonomy(lines, n - 1)
             line == lines[n]
         IN  IF GetlineNR(n) = 1 THEN tax
             ELSE [k \in DOMAIN tax \cup {Field(line, 1)} |->
                      IF k = Field(line, 1) THEN line ELSE tax[k]]

\* The main rule, for one line of hits.txt.
AwkMainRule(tax, hit) ==
    LET tid == AwkTid(Field(hit, 2))
        identity == Field(hit, 3)
    IN  IF tid \in DOMAIN tax
        THEN <<Field(hit, 1), identity>> \o tax[tid]
        ELSE <<Field(hit, 1), identity, tid, UNKNOWN>>

AwkJoin(taxfile, hits) ==
    LET tax == LoadTaxonomy(taxfile, Len(taxfile))
    IN  [i \in 1..Len(hits) |-> AwkMainRule(tax, hits[i])]

\* printf "centroid\tidentity\t%s\n" "$(head -n1 taxonomy.tsv)"
HeaderLine(taxfile) ==
    <<CENTROID, IDENTITY>> \o (IF taxfile = <<>> THEN << <<>> >> ELSE Head(taxfile))

\* ------------------------------------------------------------------ pandas

\* The missing value of a text column, and of a number column.
NaN == <<"NaN">>
NaNum == <<0, 0>>

\* Some of the texts read_csv takes for a missing value.
NaValues == { <<>>, <<"N", "A">>, <<"N", "a", "N">>, <<"n", "u", "l", "l">> }

DigitValue(c) == (CHOOSE i \in 1..Len(Digits) : Digits[i] = c) - 1
IsDigit(c) == \E i \in 1..Len(Digits) : Digits[i] = c

\* A number is held as the fraction <<numerator, denominator>> and written
\* as numerator/denominator.
IsNumberText(f) == Len(f) = 3 /\ IsDigit(f[1]) /\ f[2] = "/" /\ IsDigit(f[3])
ParseNumber(f) == <<DigitValue(f[1]), DigitValue(f[3])>>
FormatNumber(x) == <<Digits[x[1] + 1], "/", Digits[x[2] + 1]>>

ColumnIndex(columns, name) == IndexOf(columns, name)

\* read_csv(sep="\t"): the first line names the columns; a short line is
\* padded with missing values; a column whose fields are all numbers or
\* missing is a number column, any other column (and every column of a table
\* without rows) a text column.
IsNumberColumn(lines, c) ==
    /\ Len(lines) > 1
    /\ \A i \in 2..Len(lines) :
          Field(lines[i], c) \in NaValues \/ IsNumberText(Field(lines[i], c))

ReadCell(lines, i, c) ==
    LET f == Field(lines[i], c)
    IN  IF IsNumberColumn(lines, c)
        THEN (IF f \in NaValues THEN NaNum ELSE ParseNumber(f))
        ELSE (IF f \in NaValues THEN NaN ELSE f)

ReadCsv(lines) ==
    [columns |-> Head(lines),
     dtypes |-> [c \in 1..Len(Head(lines)) |->
                   IF IsNumberColumn(lines, c) THEN "float64" ELSE "object"],
     rows |-> [i \in 1..(Len(lines) - 1) |->
                  [c \in 1..Len(Head(lines)) |-> ReadCell(lines, i + 1, c)]]]

\* read_csv raises when a line has more fields than the header.
ParserError(lines) == \E i \in 2..Len(lines) : Len(lines[i]) > Len(Head(lines))

WriteCell(v, dtype) ==
    IF dtype = "float64"
    THEN (IF v = NaNum THEN <<>> ELSE FormatNumber(v))
    ELSE (IF v = NaN THEN <<>> ELSE v)

\* to_csv(sep="\t", index=False)
ToCsv(frame) ==
    <<frame.columns>> \o
    [i \in 1..Len(frame.rows) |->
        [c \in 1..Len(frame.columns) |-> WriteCell(frame.rows[i][c], frame.dtypes[c])]]

Column(frame, name) ==
    [i \in 1..Len(frame.rows) |-> frame.rows[i][ColumnIndex(frame.columns, name)]]

\* .str raises on a column that holds no text.
IsTextColumn(frame, name) == frame.dtypes[ColumnIndex(frame.columns, name)] = "object"

\* .str.replace(" ", "_", regex=False)
StrReplace(s) ==
    IF s = NaN THEN NaN
    ELSE [i \in 1..Len(s) |-> IF s[i] = " " THEN "_" ELSE s[i]]

SpeciesNorm(frame) ==
    LET species == Column(frame, SPECIES)
    IN  [i \in 1..Len(species) |-> StrReplace(species[i])]

RECURSIVE SumOver(_, _)
SumOver(f, keys) ==
    IF keys = {} THEN 0
    ELSE LET k == CHOOSE x \in keys : TRUE
         IN  f[k] + SumOver(f, keys \ {k})

\* value_counts(): the number of occurrences of every value but the missing one.
Counts(series) ==
    [k \in {series[i] : i \in 1..Len(series)} \ {NaN} |->
        Cardinality({i \in 1..Len(series) : series[i] = k})]

\* The divisor taken to be the number of lines of the file, header included.
CountsSumWithHeader(series) == Len(series) + 1

\* normalize=True divides by the sum of the counts.
CountsSum(series) == SumOver(Counts(series), DOMAIN Counts(series))

\* value_counts(normalize=True).rename_axis(...).reset_index(name="abundance")
ValueCounts(series) ==
    [k \in DOMAIN Counts(series) |-> <<Counts(series)[k], CountsSum(series)>>]

\* The merge made on the species column itself.
MergeKeyExact(frame, i) == Column(frame, SPECIES)[i]

\* The key a row is matched on in merge(abundance_table, on="species_norm").
MergeKey(frame, i) == SpeciesNorm(frame)[i]

\* df.merge(abundance_table, on="species_norm", how="left"), and the helper
\* column dropped again.
Merge(frame, table) ==
    [columns |-> Append(frame.columns, ABUNDANCE),
     dtypes |-> Append(frame.dtypes, "float64"),
     rows |-> [i \in 1..Len(frame.rows) |->
                 Append(frame.rows[i],
                        IF MergeKey(frame, i) \in DOMAIN table
                        THEN table[MergeKey(frame, i)] ELSE NaNum)]]

\* Duplicates dropped on the normalized species name.
DuplicateKeyNormalized(frame, i) == StrReplace(Column(frame, SPECIES)[i])

\* The value drop_duplicates compares.
DuplicateKey(frame, i) == Column(frame, SPECIES)[i]

\* drop_duplicates(subset=["species"]): a scan that keeps a row unless its
\* species was seen in an earlier row.
RECURSIVE KeptRows(_, _)
KeptRows(frame, n) ==
    IF n = 0 THEN <<>>
    ELSE IF \E j \in 1..(n - 1) : DuplicateKey(frame, j) = DuplicateKey(frame, n)
         THEN KeptRows(frame, n - 1)
         ELSE Append(KeptRows(frame, n - 1), frame.rows[n])

DropDuplicates(frame) ==
    [columns |-> frame.columns, dtypes |-> frame.dtypes,
     rows |-> KeptRows(frame, Len(frame.rows))]

\* Series.sum() of the abundance column: missing values are skipped. The
\* fractions of one table share their denominator.
RECURSIVE SumNumerators(_, _)
SumNumerators(series, n) ==
    IF n = 0 THEN 0 ELSE series[n][1] + SumNumerators(series, n - 1)

\* ------------------------------------------------------------ output paths

Basename(path) == path[Len(path)]
OutputFilename(folder_name) == folder_name \o TSV
\* The group folder named by the whole folder name.
GroupPrefixWholeName(folder_name) == folder_name

\* folder_name[:3]
GroupPrefix(folder_name) ==
    SubSeq(folder_name, 1, IF Len(folder_name) < 3 THEN Len(folder_name) ELSE 3)
TargetPath(folder_name) == <<GroupPrefix(folder_name), OutputFilename(folder_name)>>

\* ------------------------------------------------------------------ state

Put(f, k, v) == [x \in DOMAIN f \cup {k} |-> IF x = k THEN v ELSE f[x]]
Remove(f, ks) == [x \in DOMAIN f \ ks |-> f[x]]

EmptyFrame == [columns |-> <<>>, dtypes |-> <<>>, rows |-> <<>>]

HitBound == IF Cardinality(tree) = 1 THEN MaxHits ELSE MaxBatchHits

Init ==
    /\ tree \in Trees
    /\ taxonomy \in TaxonomyTables
    /\ files \in {NoFiles, EarlierFiles}
    /\ dirs = {p[1] : p \in DOMAIN files}
    /\ pending = tree
    /\ pc = "walk"
    /\ dirpath = <<>>
    /\ tmp = [n \in {} |-> <<>>]
    /\ ext_failed = FALSE
    /\ returncode = 0
    /\ df = EmptyFrame
    /\ abundance_table = [k \in {} |-> <<0, 0>>]
    /\ df_clean = EmptyFrame
    /\ routed = [d \in {} |-> <<>>]

\* os.walk reaches a folder holding sorted.fastq; the temporary folder is
\* created and taxonomy.tsv copied into it.
FoundSample ==
    /\ pc = "walk"
    /\ \E d \in pending :
          /\ dirpath' = d
          /\ pending' = pending \ {d}
    /\ tmp' = [n \in {TAXONOMY_TSV} |-> taxonomy]
    /\ ext_failed' = FALSE
    /\ returncode' = 0
    /\ pc' = "seqkit"
    /\ UNCHANGED <<tree, taxonomy, files, dirs, df, abundance_table, df_clean, routed>>

\* (1) seqkit fq2fa sorted.fastq -o sorted.fasta; a failing seqkit may or may
\* not leave a sorted.fasta behind. The script goes on either way.
Seqkit ==
    /\ pc = "seqkit"
    /\ \E status \in {0, 1}, wrote \in BOOLEAN :
          /\ status = 0 => wrote
          /\ returncode' = status
          /\ ext_failed' = (ext_failed \/ status # 0)
          /\ tmp' = IF wrote THEN Put(tmp, SORTED_FASTA, <<>>) ELSE tmp
    /\ pc' = "vsearch"
    /\ UNCHANGED <<tree, taxonomy, files, dirs, pending, dirpath, df,
                   abundance_table, df_clean, routed>>

\* (2) vsearch --usearch_global sorted.fasta ... --userout hits.txt; without
\* its input it fails; a failing vsearch may or may not leave a hits.txt.
Vsearch ==
    /\ pc = "vsearch"
    /\ \E status \in {0, 1}, wrote \in BOOLEAN, hits \in HitFiles(HitBound) :
          /\ status = 0 => wrote
          /\ SORTED_FASTA \notin DOMAIN tmp => (status = 1 /\ hits = <<>>)
          /\ ~wrote => hits = <<>>
          /\ returncode' = status
          /\ ext_failed' = (ext_failed \/ status # 0)
          /\ tmp' = IF wrote THEN Put(tmp, HITS_TXT, hits) ELSE tmp
    /\ pc' = "awk"
    /\ UNCHANGED <<tree, taxonomy, files, dirs, pending, dirpath, df,
                   abundance_table, df_clean, routed>>

\* (3) awk '...' hits.txt > classified_full_tmp.tsv: the shell creates the
\* output file before awk starts; awk fails without hits.txt.
AwkJoinStep ==
    /\ pc = "awk"
    /\ HITS_TXT \in DOMAIN tmp
    /\ tmp' = Put(tmp, CLASSIFIED_FULL_TMP, AwkJoin(tmp[TAXONOMY_TSV], tmp[HITS_TXT]))
    /\ returncode' = 0
    /\ pc' = "header"
    /\ UNCHANGED <<tree, taxonomy, files, dirs, pending, dirpath, ext_failed, df,
                   abundance_table, df_clean, routed>>

\* awk ends with a failure status (no hits.txt, or awk cannot run) and has
\* printed nothing.
AwkFails ==
    /\ pc = "awk"
    /\ tmp' = Put(tmp, CLASSIFIED_FULL_TMP, <<>>)
    /\ returncode' = 2
    /\ ext_failed' = TRUE
    /\ pc' = "header"
    /\ UNCHANGED <<tree, taxonomy, files, dirs, pending, dirpath, df,
                   abundance_table, df_clean, routed>>

\* (4) { printf header; cat classified_full_tmp.tsv; } > classified_full.tsv
GenerateHeader ==
    /\ pc = "header"
    /\ tmp' = Put(tmp, CLASSIFIED_FULL,
                  <<HeaderLine(tmp[TAXONOMY_TSV])>> \o tmp[CLASSIFIED_FULL_TMP])
    /\ returncode' = 0
    /\ pc' = "rm"
    /\ UNCHANGED <<tree, taxonomy, files, dirs, pending, dirpath, ext_failed, df,
                   abundance_table, df_clean, routed>>

Intermediates == {SORTED_FASTA, HITS_TXT, CLASSIFIED_FULL_TMP}

\* (5) rm sorted.fasta hits.txt classified_full_tmp.tsv: the last command of
\* the script, whose status is the status of the script.
RmStatus(present) == IF Intermediates \subseteq present THEN 0 ELSE 1

Cleanup ==
    /\ pc = "rm"
    /\ returncode' = RmStatus(DOMAIN tmp)
    /\ tmp' = Remove(tmp, Intermediates)
    /\ pc' = "run"
    /\ UNCHANGED <<tree, taxonomy, files, dirs, pending, dirpath, ext_failed, df,
                   abundance_table, df_clean, routed>>

\* subprocess.run(bash_script, shell=True, check=True, cwd=tmpdir) returns.
PipelineReturns ==
    /\ pc = "run"
    /\ returncode = 0
    /\ pc' = "abundance"
    /\ UNCHANGED <<tree, taxonomy, files, dirs, pending, dirpath, tmp, ext_failed,
                   returncode, df, abundance_table, df_clean, routed>>

\* check=True raises CalledProcessError: the temporary folder is removed and
\* the program ends.
PipelineRaises ==
    /\ pc = "run"
    /\ returncode # 0
    /\ pc' = "aborted"
    /\ tmp' = [n \in {} |-> <<>>]
    /\ UNCHANGED <<tree, taxonomy, files, dirs, pending, dirpath, ext_failed,
                   returncode, df, abundance_table, df_clean, routed>>

\* What STEP 2 cannot work on: a line longer than the header, no species
\* column, or a species column that holds no text.
AbundanceError(lines) ==
    \/ ParserError(lines)
    \/ ColumnIndex(Head(lines), SPECIES) = 0
    \/ ~IsTextColumn(ReadCsv(lines), SPECIES)

\* STEP 2: Compute abundances.
ComputeAbundance ==
    /\ pc = "abundance"
    /\ ~AbundanceError(tmp[CLASSIFIED_FULL])
    /\ LET frame == ReadCsv(tmp[CLASSIFIED_FULL])
           table == ValueCounts(SpeciesNorm(frame))
       IN  /\ abundance_table' = table
           /\ df' = Merge(frame, table)
           /\ tmp' = Put(tmp, WITH_ABUNDANCE, ToCsv(Merge(frame, table)))
    /\ pc' = "dedup"
    /\ UNCHANGED <<tree, taxonomy, files, dirs, pending, dirpath, ext_failed,
                   returncode, df_clean, routed>>

\* STEP 2 raises and the program ends.
AbundanceRaises ==
    /\ pc = "abundance"
    /\ AbundanceError(tmp[CLASSIFIED_FULL])
    /\ pc' = "aborted"
    /\ tmp' = [n \in {} |-> <<>>]
    /\ UNCHANGED <<tree, taxonomy, files, dirs, pending, dirpath, ext_failed,
                   returncode, df, abundance_table, df_clean, routed>>

\* STEP 3: Remove duplicate species, and save the cleaned table.
RemoveDuplicates ==
    /\ pc = "dedup"
    /\ LET frame == ReadCsv(tmp[WITH_ABUNDANCE])
       IN  /\ df' = frame
           /\ df_clean' = DropDuplicates(frame)
           /\ tmp' = Put(tmp, CLEANED, ToCsv(DropDuplicates(frame)))
    /\ pc' = "route"
    /\ UNCHANGED <<tree, taxonomy, files, dirs, pending, dirpath, ext_failed,
                   returncode, abundance_table, routed>>

\* os.makedirs(group_folder, exist_ok=True); shutil.copy(cleaned_path,
\* target_path); the temporary folder is removed.
RouteOutput ==
    /\ pc = "route"
    /\ LET folder_name == Basename(dirpath)
       IN  /\ dirs' = dirs \cup {GroupPrefix(folder_name)}
           /\ files' = Put(files, TargetPath(folder_name), tmp[CLEANED])
    /\ routed' = Put(routed, dirpath, tmp[CLEANED])
    /\ tmp' = [n \in {} |-> <<>>]
    /\ pc' = "walk"
    /\ UNCHANGED <<tree, taxonomy, pending, dirpath, ext_failed, returncode, df,
                   abundance_table, df_clean>>

\* os.walk is exhausted.
AllProcessed ==
    /\ pc = "walk"
    /\ pending = {}
    /\ pc' = "done"
    /\ UNCHANGED <<tree, taxonomy, files, dirs, pending, dirpath, tmp, ext_failed,
                   returncode, df, abundance_table, df_clean, routed>>

Next ==
    \/ FoundSample
    \/ Seqkit
    \/ Vsearch
    \/ AwkJoinStep
    \/ AwkFails
    \/ GenerateHeader
    \/ Cleanup
    \/ PipelineReturns
    \/ PipelineRaises
    \/ ComputeAbundance
    \/ AbundanceRaises
    \/ RemoveDuplicates
    \/ RouteOutput
    \/ AllProcessed

Spec == Init /\ [][Next]_vars

\* ------------------------------------------------------------------ claims

\* p is the text of target before its first ':' (all of it without a ':').
IsTextBeforeFirstColon(p, target) ==
    /\ Len(p) <= Len(target)
    /\ \A i \in 1..Len(p) : p[i] = target[i] /\ p[i] # ":"
    /\ Len(p) < Len(target) => target[Len(p) + 1] = ":"

AwkSucceeded == pc = "header" /\ returncode = 0

IsUnknownRow(row) == Len(row) = 4 /\ row[4] = UNKNOWN

\* C4. Every row the awk join prints carries, as its third field, the text
\* of the hit's target before its first ':': the first field of the joined
\* taxonomy line in the known branch, the field before the UNKNOWN marker in
\* the unknown branch.
C4_TaxonIdentifier ==
    AwkSucceeded =>
        LET hits == tmp[HITS_TXT]
            rows == tmp[CLASSIFIED_FULL_TMP]
        IN  /\ Len(rows) = Len(hits)
            /\ \A i \in 1..Len(hits) :
                  /\ rows[i][1] = hits[i][1]
                  /\ rows[i][2] = hits[i][3]
                  /\ IsTextBeforeFirstColon(Field(rows[i], 3), hits[i][2])
                  /\ \/ IsUnknownRow(rows[i])
                     \/ \E n \in 1..Len(taxonomy) :
                           SubSeq(rows[i], 3, Len(rows[i])) = taxonomy[n]

C4_Witness ==
    /\ AwkSucceeded
    /\ \E i, j \in 1..Len(tmp[HITS_TXT]) :
          /\ IsUnknownRow(tmp[CLASSIFIED_FULL_TMP][i])
          /\ ~IsUnknownRow(tmp[CLASSIFIED_FULL_TMP][j])
          /\ tmp[HITS_TXT][j][2] = <<"2", ":", "b", ":", "c">>

\* C7. The header line of taxonomy.tsv is never a taxonomy record: a hit
\* whose taxon identifier is the first field of the header line and of no
\* data line takes the unknown branch.
C7_HeaderNeverStored ==
    AwkSucceeded =>
        \A i \in 1..Len(tmp[HITS_TXT]) :
            LET hit == tmp[HITS_TXT][i]
                tid == AwkTid(hit[2])
            IN  (/\ tid = Field(Head(taxonomy), 1)
                 /\ \A n \in 2..Len(taxonomy) : Field(taxonomy[n], 1) # tid)
                => tmp[CLASSIFIED_FULL_TMP][i] = <<hit[1], hit[3], tid, UNKNOWN>>

AbundanceComputed == pc = "dedup"

Species(frame) == Column(frame, SPECIES)

AllSpeciesPresent(frame) ==
    /\ Len(frame.rows) > 0
    /\ \A i \in 1..Len(frame.rows) : Species(frame)[i] # NaN

NormalizedNames(frame) ==
    {StrReplace(Species(frame)[i]) : i \in 1..Len(frame.rows)} \ {NaN}

\* C1. When every row has a species, the fractions of the distinct
\* normalized species names sum to 1: they share one denominator, the number
\* of rows, and their numerators sum to it.
C1_FractionsSumToOne ==
    (AbundanceComputed /\ AllSpeciesPresent(df)) =>
        /\ DOMAIN abundance_table = NormalizedNames(df)
        /\ \A k \in DOMAIN abundance_table :
              abundance_table[k][2] = Len(df.rows) /\ abundance_table[k][1] > 0
        /\ SumOver([k \in DOMAIN abundance_table |-> abundance_table[k][1]],
                   DOMAIN abundance_table) = Len(df.rows)

C1_Witness ==
    /\ AbundanceComputed
    /\ AllSpeciesPresent(df)
    /\ Cardinality(DOMAIN abundance_table) = 2
    /\ \E k \in DOMAIN abundance_table : abundance_table[k][1] = 2
    /\ \E i \in 1..Len(df.rows) : StrReplace(Species(df)[i]) # Species(df)[i]

\* The rows counted under the normalized name of row i.
RowsOfKey(frame, i) ==
    {j \in 1..Len(frame.rows) :
        /\ Species(frame)[j] # NaN
        /\ StrReplace(Species(frame)[j]) = StrReplace(Species(frame)[i])}

RowsWithSpecies(frame) == {j \in 1..Len(frame.rows) : Species(frame)[j] # NaN}

Abundance(frame) == Column(frame, ABUNDANCE)

\* C2 as stated: the abundance of every row with a species is the count of
\* its normalized name over the number of all rows, the rows without a
\* species included.
C2_DenominatorAllRows ==
    AbundanceComputed =>
        \A i \in RowsWithSpecies(df) :
            /\ Abundance(df)[i] # NaNum
            /\ Abundance(df)[i][1] * Len(df.rows) =
                  Cardinality(RowsOfKey(df, i)) * Abundance(df)[i][2]

\* C2, amended. The abundance of every row with a species is the count of
\* its normalized name over the number of rows that have a species; a row
\* without a species gets no abundance.
C2_DenominatorRowsWithSpecies ==
    AbundanceComputed =>
        \A i \in 1..Len(df.rows) :
            IF i \in RowsWithSpecies(df)
            THEN Abundance(df)[i] =
                    <<Cardinality(RowsOfKey(df, i)), Cardinality(RowsWithSpecies(df))>>
            ELSE Abundance(df)[i] = NaNum

C2_Witness ==
    /\ AbundanceComputed
    /\ Cardinality(RowsWithSpecies(df)) = 2
    /\ Len(df.rows) = 3
    /\ \E i, j \in RowsWithSpecies(df) :
          /\ Species(df)[i] # Species(df)[j]
          /\ Abundance(df)[i] = <<2, 2>>

DuplicatesRemoved == pc = "route"

\* C3. When every row has a species, the abundances of the rows kept by the
\* deduplication sum to 1.
C3_KeptAbundanceSumsToOne ==
    (DuplicatesRemoved /\ AllSpeciesPresent(df)) =>
        \E d \in 1..Len(df.rows) :
            /\ \A i \in 1..Len(df_clean.rows) : Abundance(df_clean)[i][2] = d
            /\ SumNumerators(Abundance(df_clean), Len(df_clean.rows)) = d

\* The lines of classified_full.tsv that the unknown branch printed for a
\* taxon identifier that is the first field of no line of taxonomy.tsv.
IsUnknownTaxonLine(line) ==
    /\ IsUnknownRow(line)
    /\ \A n \in 1..Len(taxonomy) : Field(taxonomy[n], 1) # line[3]

IsResolvedLine(line) == ~IsUnknownTaxonLine(line)

\* C5. A row of an unknown taxon contributes to no abundance: the abundance
\* table is the table of the same sample without those rows.
C5_UnknownDoesNotContribute ==
    AbundanceComputed =>
        LET lines == tmp[CLASSIFIED_FULL]
            resolved == <<Head(lines)>> \o SelectSeq(Tail(lines), IsResolvedLine)
        IN  abundance_table = ValueCounts(SpeciesNorm(ReadCsv(resolved)))

\* The rows whose species no earlier row has.
FirstSeen(frame) ==
    {i \in 1..Len(frame.rows) :
        \A j \in 1..(i - 1) : Species(frame)[j] # Species(frame)[i]}

\* The n-th smallest member of a set of row numbers.
Nth(S, n) == CHOOSE i \in S : Cardinality({j \in S : j <= i}) = n

\* C6. The deduplicated table holds, in their order, exactly the rows whose
\* species no earlier row has: one row per species; deduplicating it again
\* changes nothing.
C6_FirstRowPerSpecies ==
    DuplicatesRemoved =>
        /\ Len(df_clean.rows) = Cardinality(FirstSeen(df))
        /\ \A n \in 1..Len(df_clean.rows) :
              df_clean.rows[n] = df.rows[Nth(FirstSeen(df), n)]
        /\ \A m, n \in 1..Len(df_clean.rows) :
              m # n => Species(df_clean)[m] # Species(df_clean)[n]
        /\ DropDuplicates(df_clean) = df_clean
        /\ tmp[CLEANED] = ToCsv(df_clean)

C6_Witness ==
    /\ DuplicatesRemoved
    /\ Len(df.rows) = 3
    /\ Len(df_clean.rows) = 2
    /\ Species(df)[1] = Species(df)[3]
    /\ \E i, j \in 1..3 :
          /\ Species(df)[i] # Species(df)[j]
          /\ StrReplace(Species(df)[i]) = StrReplace(Species(df)[j])

ExpectedGroup(name) ==
    IF Len(name) < 3 THEN name ELSE <<name[1], name[2], name[3]>>

\* C8. Routing puts the cleaned table at <group>/<folder name>.tsv, the group
\* being the first three characters of the folder name or the whole of a
\* shorter name; it succeeds whether or not the group folder exists, and
\* changes no other file.
C8_Routing ==
    [][pc = "route" =>
         LET name == dirpath[Len(dirpath)]
             target == <<ExpectedGroup(name), name \o TSV>>
         IN  /\ pc' = "walk"
             /\ dirs' = dirs \cup {ExpectedGroup(name)}
             /\ DOMAIN files' = DOMAIN files \cup {target}
             /\ files'[target] = ToCsv(df_clean)
             /\ \A p \in DOMAIN files : p # target => files'[p] = files[p]]_vars

C8_Witness ==
    /\ pc = "walk"
    /\ {SampleShort, SampleA} \subseteq DOMAIN routed
    /\ {<<AB, AB \o TSV>>, <<AB, OTHER_TSV>>, <<SubSeq(ABC1, 1, 3), ABC1 \o TSV>>,
        <<SubSeq(ABC1, 1, 3), OTHER_TSV>>} \subseteq DOMAIN files
    /\ files[<<AB, AB \o TSV>>] = routed[SampleShort]
    /\ files[<<SubSeq(ABC1, 1, 3), ABC1 \o TSV>>] = routed[SampleA]
    /\ files[<<AB, OTHER_TSV>>] = OldTable
    /\ files[<<SubSeq(ABC1, 1, 3), OTHER_TSV>>] = OldTable
    /\ Len(routed[SampleShort]) > 1

\* C9. After an external step of the pipeline has failed, no abundance is
\* computed, no output is routed and no later sample is processed.
C9_FailFast ==
    ext_failed => pc \notin {"dedup", "route", "walk", "done"}

\* C10. The routed output of every processed sample folder holds that
\* sample's own cleaned table.
C10_DurableOutput ==
    \A d \in DOMAIN routed : files[TargetPath(Basename(d))] = routed[d]

====
